---- MODULE Spec2Model ----
(***************************************************************************)
(* A model of b4/ty.py: the tracked-item store (files in the data          *)
(* directory whose name encodes the state of the item), the output         *)
(* directory of ready-to-send .thanks files, the two commit locators and   *)
(* the four commands of main(): list, auto, send, discard.                 *)
(*                                                                         *)
(* A file name is the sequence of its dot-separated components:            *)
(* "c2.pr.sent" is <<"c2", "pr", "sent">>.  Text that is normalised by the *)
(* code (sender address, subject) is a sequence of one-character strings.  *)
(***************************************************************************)
EXTENDS Integers, Sequences, FiniteSets, TLC

VARIABLES
    datadir,     \* b4.get_data_dir(): file name -> [body, mtime]
    outdir,      \* cmdargs.outdir: [exists, files: file name -> content]
    usercfg,     \* b4.get_user_config(): a record, with or without "email"
    repo,        \* the git repository the queries are answered from
    MY_COMMITS,  \* the module global: [set, map]; set = FALSE is None
    pc,          \* position of the running command; "idle" between runs
    cmdargs,     \* the arguments of the running (or last) command
    tracked,     \* local `tracked` of the running command
    listing,     \* local `listing` (send_messages' parameter)
    applied,     \* local `applied` of auto_thankanator
    pos,         \* 1-based position of the running for loop
    status,      \* how the last run ended
    budget,      \* number of runs that may still be started
    origin,      \* datadir as it was when the behaviour started
    start,       \* datadir and outdir as they were when the run started
    written,     \* the files this run wrote into outdir, in order
    located,     \* the track files this run handed to a locator
    calls,       \* the calls of get_all_commits in this process, in order
    interrupted, \* the command and listing of the run that was interrupted
    result       \* the result of the last locator call of this run

vars == <<datadir, outdir, usercfg, repo, MY_COMMITS, pc, cmdargs, tracked,
          listing, applied, pos, status, budget, origin, start, written, located,
          calls, interrupted, result>>

(***************************************************************************)
(* Bounds of the model.                                                    *)
(***************************************************************************)
MaxItems == 2      \* tracked records in the data directory
MaxSel == 2        \* values given to -s / -d
MaxRuns == 2       \* runs of the command in one behaviour

(***************************************************************************)
(* Sequences and Python's list indexing.                                   *)
(***************************************************************************)
Range(s) == {s[i] : i \in 1..Len(s)}

SeqsUpTo(S, n) == UNION {[1..k -> S] : k \in 0..n}

\* tracked[index] raises IndexError unless -len <= index < len
PyIndexOK(s, index) == index >= -Len(s) /\ index < Len(s)

PyIndex(s, index) == IF index >= 0 THEN s[index + 1] ELSE s[Len(s) + index + 1]

(***************************************************************************)
(* int(num): the numerals the model uses, anything else is a ValueError.   *)
(***************************************************************************)
IntTable ==
    [s \in {"-1", "0", "1", "2", "3", "4", "9"} |->
        CASE s = "-1" -> -1
          [] s = "0" -> 0
          [] s = "1" -> 1
          [] s = "2" -> 2
          [] s = "3" -> 3
          [] s = "4" -> 4
          [] s = "9" -> 9]

IsInt(num) == num \in DOMAIN IntTable

int(num) == IntTable[num]

(***************************************************************************)
(* File names.                                                             *)
(***************************************************************************)
\* pathlib's suffix: the last component, none for a name without a dot
Suffix(name) == IF Len(name) > 1 THEN name[Len(name)] ELSE ""

\* pathlib's stem: the name without its suffix
Stem(name) == IF Len(name) > 1 THEN SubSeq(name, 1, Len(name) - 1) ELSE name

\* a rename that removes src and creates nothing
os_rename_unlink(dir, src, dst) ==
    [n \in DOMAIN dir \ {src} |-> dir[n]]

\* a rename that copies src and leaves it in place
os_rename_copy(dir, src, dst) ==
    [n \in DOMAIN dir \cup {dst} |-> IF n = dst THEN dir[src] ELSE dir[n]]

\* os.rename(src, dst) for an existing src: dst is replaced if it exists
os_rename(dir, src, dst) ==
    [n \in (DOMAIN dir \ {src}) \cup {dst} |->
        IF n = dst THEN dir[src] ELSE dir[n]]

(***************************************************************************)
(* The slug of an artifact's name (send_messages).                         *)
(***************************************************************************)
WordChars == {"a", "b", "d", "f", "i", "x", "A", "F", "_", "1", "2"}

Lower(c) == CASE c = "A" -> "a" [] c = "F" -> "f" [] OTHER -> c

\* re.sub(r'\W', '_', text)
SubNonWord(text) ==
    [i \in 1..Len(text) |-> IF text[i] \in WordChars THEN text[i] ELSE "_"]

LowerAll(text) == [i \in 1..Len(text) |-> Lower(text[i])]

\* re.sub(r'_+', '_', text)
RECURSIVE Squeeze(_)
Squeeze(text) ==
    IF Len(text) < 2 THEN text
    ELSE IF text[1] = "_" /\ text[2] = "_" THEN Squeeze(Tail(text))
    ELSE <<text[1]>> \o Squeeze(Tail(text))

Slug(jsondata) ==
    Squeeze(LowerAll(SubNonWord(jsondata.fromemail)) \o <<"_">>
            \o LowerAll(SubNonWord(jsondata.subject)))

ThanksFile(jsondata) == <<Slug(jsondata), "thanks">>

(***************************************************************************)
(* The git repository and the queries ty.py sends to it.                   *)
(*   parents[c]    the parents of commit c (a DAG; parents are older)      *)
(*   author[c], committer[c]   e-mail addresses                            *)
(*   patchid[c]    `git patch-id --stable` of c's diff against its parent  *)
(*   recent        the commits inside the --since window                   *)
(*   unreadable    commits `git show` prints nothing for                   *)
(*   tip[b]        the tip commit of branch b;  head: the checked-out one  *)
(***************************************************************************)
Commits == {"c1", "c2", "c3"}

Branches == {"main", "dev"}

Emails == {"alice@example.com", "bob@example.com"}

PatchIds == {"p1", "p2", "p3"}

\* commit ids in commit-date order, oldest first
CommitOrder == <<"c1", "c2", "c3">>

Time(c) == CHOOSE i \in 1..Len(CommitOrder) : CommitOrder[i] = c

SubjectOf(c) == CASE c = "c1" -> "subj1" [] c = "c2" -> "subj2" [] OTHER -> "subj3"

RECURSIVE Ancestors(_, _)
\* c and every commit reachable from c
Ancestors(r, c) == {c} \cup UNION {Ancestors(r, p) : p \in r.parents[c]}

\* a set of commits as git lists it: most recent first
RECURSIVE NewestFirst(_)
NewestFirst(S) ==
    IF S = {} THEN <<>>
    ELSE LET c == CHOOSE x \in S : \A y \in S : Time(y) <= Time(x)
         IN <<c>> \o NewestFirst(S \ {c})

\* b4.git_commit_exists
git_commit_exists(r, commit_id) == commit_id \in DOMAIN r.parents

\* b4.git_branch_contains: the branches whose tip has commit_id in its history
git_branch_contains(r, commit_id) ==
    {b \in DOMAIN r.tip : commit_id \in Ancestors(r, r.tip[b])}

\* git rev-list <commit_id>.. --ancestry-path: the commits of HEAD's history
\* that descend from commit_id, commit_id itself excluded
git_rev_list_ancestry(r, commit_id) ==
    NewestFirst({c \in Ancestors(r, r.tip[r.head]) :
                    c # commit_id /\ commit_id \in Ancestors(r, c)})

\* the diff part of `git show`: nothing for a merge, else the patch
ShowDiff(r, c) ==
    IF Cardinality(r.parents[c]) > 1 THEN <<>>
    ELSE <<"diff --git a/MAINTAINERS b/MAINTAINERS", "+bob@example.com">>

\* git show --format=%ae <commit>, as lines
git_show_ae(r, c) ==
    IF c \in r.unreadable THEN <<>> ELSE <<r.author[c]>> \o ShowDiff(r, c)

\* the windows of --since: r.recent holds the commits of the last week, a
\* year holds all of them
Windows == {"1.week", "1.year"}

InWindow(r, since) == IF since = "1.week" THEN r.recent ELSE DOMAIN r.parents

\* git log --committer <committer> --no-abbrev --oneline --since <since> <branch>
git_log(r, branch, committer, since) ==
    LET hits == {c \in Ancestors(r, r.tip[branch]) :
                    r.committer[c] = committer /\ c \in InWindow(r, since)}
        order == NewestFirst(hits)
    IN [i \in 1..Len(order) |-> <<order[i], SubjectOf(order[i])>>]

\* git diff rev~..rev piped into git patch-id --stable, split into chunks:
\* a commit without a parent has no diff and yields no chunk
patch_id_chunks(r, rev) ==
    IF r.parents[rev] = {} THEN <<>> ELSE <<r.patchid[rev], rev>>

(***************************************************************************)
(* git_get_merge_id                                                        *)
(***************************************************************************)
NoCommit == ""

git_get_merge_id(r, commit_id) ==
    LET lines == git_rev_list_ancestry(r, commit_id)
    IN IF Len(lines) = 0 THEN NoCommit ELSE lines[Len(lines)]

(***************************************************************************)
(* auto_locate_pr: the merge commit, or NoCommit for None.                 *)
(***************************************************************************)
\* a locator without the check of the merge commit's author
auto_locate_pr_anyauthor(r, jsondata, branch, cfg) ==
    LET pr_commit_id == jsondata.pr_commit_id
        onbranches == git_branch_contains(r, pr_commit_id)
        merge_commit_id == git_get_merge_id(r, pr_commit_id)
    IN IF ~git_commit_exists(r, pr_commit_id) THEN NoCommit
       ELSE IF onbranches = {} THEN NoCommit
       ELSE IF branch \notin onbranches THEN NoCommit
       ELSE merge_commit_id

auto_locate_pr(r, jsondata, branch, cfg) ==
    LET pr_commit_id == jsondata.pr_commit_id
        onbranches == git_branch_contains(r, pr_commit_id)
        merge_commit_id == git_get_merge_id(r, pr_commit_id)
        out == git_show_ae(r, merge_commit_id)
    IN IF ~git_commit_exists(r, pr_commit_id) THEN NoCommit
       ELSE IF onbranches = {} THEN NoCommit
       ELSE IF branch \notin onbranches THEN NoCommit
       ELSE IF merge_commit_id = NoCommit THEN NoCommit
       ELSE IF Len(out) = 0 THEN NoCommit
       ELSE IF cfg.email \notin Range(out) THEN NoCommit
       ELSE merge_commit_id

(***************************************************************************)
(* get_all_commits: [raised, map].  The loop stores one entry per line of  *)
(* the log, in the order of the log, so the entry of the last line with a  *)
(* given patch-id is the one that stays.  chunks[0] of a commit without a  *)
(* diff raises IndexError, which ends the loop with the entries of the     *)
(* lines before it.                                                        *)
(***************************************************************************)
NoCommits == [set |-> FALSE, map |-> <<>>]

\* committer=None
NoCommitter == ""

\* an index that keeps the first entry stored under a patch-id
get_all_commits_firstwins(r, branch, since, committer, cfg, cached) ==
    IF cached.set THEN [raised |-> FALSE, map |-> cached.map]
    ELSE LET who == IF committer = NoCommitter THEN cfg.email ELSE committer
             lines == git_log(r, branch, who, since)
             chunks(i) == patch_id_chunks(r, lines[i][1])
             failing == {i \in 1..Len(lines) : Len(chunks(i)) = 0}
             done == IF failing = {} THEN Len(lines)
                     ELSE (CHOOSE i \in failing : \A j \in failing : i <= j) - 1
             keys == {chunks(i)[1] : i \in 1..done}
             first(k) == CHOOSE i \in 1..done :
                            /\ chunks(i)[1] = k
                            /\ \A j \in 1..done : chunks(j)[1] = k => i <= j
         IN [raised |-> failing # {}, map |-> [k \in keys |-> lines[first(k)]]]

get_all_commits(r, branch, since, committer, cfg, cached) ==
    IF cached.set THEN [raised |-> FALSE, map |-> cached.map]
    ELSE LET who == IF committer = NoCommitter THEN cfg.email ELSE committer
             lines == git_log(r, branch, who, since)
             chunks(i) == patch_id_chunks(r, lines[i][1])
             failing == {i \in 1..Len(lines) : Len(chunks(i)) = 0}
             done == IF failing = {} THEN Len(lines)
                     ELSE (CHOOSE i \in failing : \A j \in failing : i <= j) - 1
             keys == {chunks(i)[1] : i \in 1..done}
             last(k) == CHOOSE i \in 1..done :
                           /\ chunks(i)[1] = k
                           /\ \A j \in 1..done : chunks(j)[1] = k => j <= i
         IN [raised |-> failing # {}, map |-> [k \in keys |-> lines[last(k)]]]

(***************************************************************************)
(* auto_locate_series: [ok, val]; ok = FALSE is None.                      *)
(***************************************************************************)
RECURSIVE FoundIn(_, _)
\* the for loop: the index entries of the patches that are in the index
FoundIn(commits, patches) ==
    IF patches = <<>> THEN <<>>
    ELSE LET patch == Head(patches)
         IN (IF patch[2] \in DOMAIN commits THEN <<commits[patch[2]]>> ELSE <<>>)
            \o FoundIn(commits, Tail(patches))

RECURSIVE InIndexOrder(_, _)
InIndexOrder(commits, keys) ==
    IF keys = {} THEN <<>>
    ELSE LET k == CHOOSE x \in keys : TRUE
         IN <<commits[k]>> \o InIndexOrder(commits, keys \ {k})

NoSeries == [ok |-> FALSE, val |-> <<>>]

\* a locator that answers with whatever part of the series it found
auto_locate_series_partial(commits, jsondata) ==
    LET found == FoundIn(commits, jsondata.patches)
    IN IF Len(found) > 0 \/ Len(jsondata.patches) = 0
       THEN [ok |-> TRUE, val |-> found] ELSE NoSeries

\* a locator that collects the matches in the order of the index
auto_locate_series_indexorder(commits, jsondata) ==
    LET wanted == {jsondata.patches[i][2] : i \in 1..Len(jsondata.patches)}
        found == InIndexOrder(commits, wanted \cap DOMAIN commits)
    IN IF Len(found) = Len(jsondata.patches)
       THEN [ok |-> TRUE, val |-> found] ELSE NoSeries

auto_locate_series(commits, jsondata) ==
    LET found == FoundIn(commits, jsondata.patches)
    IN IF Len(found) = Len(jsondata.patches)
       THEN [ok |-> TRUE, val |-> found] ELSE NoSeries

(***************************************************************************)
(* list_tracked and check_stale_thanks.                                    *)
(***************************************************************************)
RECURSIVE SortedByMtime(_, _)
\* sorted(Path(datadir).iterdir(), key=os.path.getmtime)
SortedByMtime(dir, names) ==
    IF names = {} THEN <<>>
    ELSE LET n == CHOOSE x \in names : \A y \in names : dir[x].mtime <= dir[y].mtime
         IN <<n>> \o SortedByMtime(dir, names \ {n})

\* the record of one track file, with the fields list_tracked attaches
LoadTracked(dir, cfg, fullpath) ==
    LET attached == [myname |-> cfg.name, myemail |-> cfg.email,
                     trackfile |-> fullpath]
        jsondata == attached @@ dir[fullpath].body
    IN IF Suffix(fullpath) = "pr"
       THEN [pr_commit_id |-> Stem(fullpath)[1]] @@ jsondata
       ELSE jsondata

\* a listing that does not look at the suffix
list_tracked_nofilter(dir, cfg) ==
    LET paths == SortedByMtime(dir, DOMAIN dir)
    IN [i \in 1..Len(paths) |-> LoadTracked(dir, cfg, paths[i])]

list_tracked(dir, cfg) ==
    LET paths == SortedByMtime(dir, {n \in DOMAIN dir : Suffix(n) \in {"pr", "am"}})
    IN [i \in 1..Len(paths) |-> LoadTracked(dir, cfg, paths[i])]

check_stale_thanks(out) ==
    out.exists /\ \E entry \in DOMAIN out.files : Suffix(entry) = "thanks"

(***************************************************************************)
(* The tracked records the behaviours start from.  Record i of the         *)
(* catalogue is a series (.am) or a pull request (.pr, named after the     *)
(* commit of the request); the modification times give the listing order   *)
(* 2, 1, 3, 4.                                                             *)
(***************************************************************************)
TrackFiles == << <<"m1", "am">>, <<"c2", "pr">>, <<"m3", "am">>, <<"c3", "pr">> >>

Sender == <<"d", "@", "x">>

Bodies ==
    << [msgid |-> "m1", fromemail |-> Sender, subject |-> <<"F", "i", "x", " ", "a">>,
        patches |-> << <<"[1/2]", "p1">>, <<"[2/2]", "p2">> >>],
       [msgid |-> "m2", fromemail |-> Sender, subject |-> <<"f", "i", "x", "_", "_", "a">>],
       [msgid |-> "m3", fromemail |-> Sender, subject |-> <<"b">>,
        patches |-> << <<"[1/1]", "p3">> >>],
       [msgid |-> "m4", fromemail |-> Sender, subject |-> <<"b", "2">>] >>

Mtimes == <<20, 10, 30, 40>>

StoreOf(n) ==
    [name \in {TrackFiles[i] : i \in 1..n} |->
        LET i == CHOOSE k \in 1..n : TrackFiles[k] = name
        IN [body |-> Bodies[i], mtime |-> Mtimes[i]]]

NoDir == [exists |-> FALSE, files |-> <<>>]

\* an output directory holding a file that is not an artifact
CleanDir ==
    [exists |-> TRUE,
     files |-> [n \in {<<<<"n", "o", "t", "e", "s">>, "txt">>} |->
                   [msgid |-> "", run |-> 0, n |-> 0]]]

\* an output directory holding an artifact that was never sent
StaleDir ==
    [exists |-> TRUE,
     files |-> [n \in {<<<<"o", "l", "d">>, "thanks">>} |->
                   [msgid |-> "m0", run |-> 0, n |-> 0]]]

Me == "alice@example.com"

\* c3 merges the request c2 into main; the user committed c2 and c3
MainRepo ==
    [parents |-> [c \in Commits |->
                    CASE c = "c1" -> {} [] c = "c2" -> {"c1"} [] OTHER -> {"c1", "c2"}],
     author |-> [c \in Commits |-> IF c = "c3" THEN Me ELSE "bob@example.com"],
     committer |-> [c \in Commits |-> IF c = "c1" THEN "bob@example.com" ELSE Me],
     patchid |-> [c \in Commits |-> IF c = "c2" THEN "p1" ELSE "p3"],
     recent |-> Commits,
     unreadable |-> {},
     tip |-> [b \in Branches |-> IF b = "main" THEN "c3" ELSE "c2"],
     head |-> "main"]

NoArgs == [cmd |-> "none", sel |-> <<>>, branch |-> ""]

NoResult == [kind |-> "none", for |-> <<>>, merge |-> NoCommit, series |-> NoSeries]

\* no run was interrupted
NoInterrupt == [cmdargs |-> NoArgs, listing |-> <<>>, run |-> 0]

InitLocals ==
    /\ MY_COMMITS = NoCommits
    /\ pc = "idle"
    /\ cmdargs = NoArgs
    /\ tracked = <<>>
    /\ listing = <<>>
    /\ applied = <<>>
    /\ pos = 1
    /\ status = "none"
    /\ origin = datadir
    /\ start = [datadir |-> datadir, outdir |-> outdir]
    /\ written = <<>>
    /\ located = {}
    /\ calls = <<>>
    /\ interrupted = NoInterrupt
    /\ result = NoResult

Init ==
    /\ \E n \in 0..MaxItems : datadir = StoreOf(n)
    /\ outdir \in {NoDir, CleanDir, StaleDir}
    /\ usercfg \in {[name |-> "Alice", email |-> Me], [name |-> "Alice"]}
    /\ repo = MainRepo
    /\ budget = MaxRuns
    /\ InitLocals

(***************************************************************************)
(* The start of a run: a new process, so MY_COMMITS is None again.         *)
(***************************************************************************)
Begin(args) ==
    /\ pc = "idle"
    /\ budget > 0
    /\ budget' = budget - 1
    /\ cmdargs' = args
    /\ start' = [datadir |-> datadir, outdir |-> outdir]
    /\ MY_COMMITS' = NoCommits
    /\ written' = <<>>
    /\ located' = {}
    /\ calls' = <<>>
    /\ result' = NoResult
    /\ UNCHANGED <<usercfg, repo, origin, interrupted>>

\* sys.exit, a return of main, or an uncaught exception
End(how) == pc' = "idle" /\ status' = how

Running(at) == pc' = at /\ status' = "none"

\* send_messages, lines 273-277
mkdir(out) == IF out.exists THEN out ELSE [exists |-> TRUE, files |-> <<>>]

SelValues == {"0", "1", "2", "x"}

SelLists == SeqsUpTo(SelValues, MaxSel) \ {<<>>}

\* the loop of send_selected and discard_selected: does some value raise?
Raises(tr, sel) ==
    \E i \in 1..Len(sel) : ~IsInt(sel[i]) \/ ~PyIndexOK(tr, int(sel[i]) - 1)

Picked(tr, sel) == [i \in 1..Len(sel) |-> PyIndex(tr, int(sel[i]) - 1)]

(***************************************************************************)
(* main without an option: the list command.                               *)
(***************************************************************************)
ListCmd ==
    /\ Begin([cmd |-> "list", sel |-> <<>>, branch |-> ""])
    /\ UNCHANGED <<datadir, outdir>>
    /\ listing' = <<>> /\ applied' = <<>> /\ pos' = 1
    /\ IF "email" \notin DOMAIN usercfg
       THEN End("exit1") /\ tracked' = <<>>
       ELSE /\ tracked' = list_tracked(datadir, usercfg)
            /\ End(IF Len(tracked') = 0 THEN "exit0" ELSE "return")

(***************************************************************************)
(* main -s: send_selected up to the loop of send_messages.                 *)
(***************************************************************************)
SendSelected ==
    \E sel \in SelLists :
        /\ Begin([cmd |-> "send", sel |-> sel, branch |-> ""])
        /\ UNCHANGED datadir
        /\ applied' = <<>> /\ pos' = 1
        /\ IF "email" \notin DOMAIN usercfg
           THEN End("exit1") /\ tracked' = <<>> /\ listing' = <<>> /\ UNCHANGED outdir
           ELSE /\ tracked' = list_tracked(datadir, usercfg)
                /\ IF Len(tracked') = 0
                   THEN End("exit0") /\ listing' = <<>> /\ UNCHANGED outdir
                   ELSE IF Raises(tracked', sel)
                   THEN End("exit1") /\ listing' = <<>> /\ UNCHANGED outdir
                   ELSE /\ listing' = Picked(tracked', sel)
                        /\ outdir' = mkdir(outdir)
                        /\ Running("write")

(***************************************************************************)
(* send_messages, one pass of the loop in two steps: the artifact is       *)
(* written (lines 280-294), then the track file is renamed (295-297).      *)
(* Of the message only its identity is kept: the record it answers and     *)
(* the write that produced it (make_msgid gives every message a new id).   *)
(***************************************************************************)
\* a pass of the loop that goes on to the rename without writing
WriteThanks_nothing ==
    /\ pc = "write"
    /\ pc' = "rename"
    /\ UNCHANGED <<datadir, outdir, usercfg, repo, MY_COMMITS, cmdargs, tracked,
                   listing, applied, pos, status, budget, origin, interrupted, start,
                   written, located, calls, result>>

WriteThanks ==
    /\ pc = "write"
    /\ LET jsondata == listing[pos]
           outfile == ThanksFile(jsondata)
           msg == [msgid |-> jsondata.msgid, run |-> budget, n |-> pos]
       IN /\ outdir' = [outdir EXCEPT !.files =
                          [n \in DOMAIN outdir.files \cup {outfile} |->
                              IF n = outfile THEN msg ELSE outdir.files[n]]]
          /\ written' = Append(written, outfile)
    /\ pc' = "rename"
    /\ UNCHANGED <<datadir, usercfg, repo, MY_COMMITS, cmdargs, tracked, listing,
                   applied, pos, status, budget, origin, interrupted, start, located, calls,
                   result>>

SentName(fullpath) == Append(fullpath, "sent")

\* a rename that stores the record as the run holds it in memory
RenameSent_writeback ==
    /\ pc = "rename"
    /\ LET fullpath == listing[pos].trackfile
       IN IF fullpath \in DOMAIN datadir
          THEN /\ datadir' =
                     [n \in (DOMAIN datadir \ {fullpath}) \cup {SentName(fullpath)} |->
                         IF n = SentName(fullpath)
                         THEN [datadir[fullpath] EXCEPT !.body = listing[pos]]
                         ELSE datadir[n]]
               /\ IF pos < Len(listing)
                  THEN pos' = pos + 1 /\ Running("write")
                  ELSE pos' = pos /\ Running("sent")
          ELSE /\ End("exception")
               /\ UNCHANGED <<datadir, pos>>
    /\ UNCHANGED <<outdir, usercfg, repo, MY_COMMITS, cmdargs, tracked, listing,
                   applied, budget, origin, interrupted, start, written, located,
                   calls, result>>

RenameSent ==
    /\ pc = "rename"
    /\ LET fullpath == listing[pos].trackfile
       IN IF fullpath \in DOMAIN datadir
          THEN /\ datadir' = os_rename(datadir, fullpath, SentName(fullpath))
               /\ IF pos < Len(listing)
                  THEN pos' = pos + 1 /\ Running("write")
                  ELSE pos' = pos /\ Running("sent")
          ELSE \* FileNotFoundError
               /\ End("exception")
               /\ UNCHANGED <<datadir, pos>>
    /\ UNCHANGED <<outdir, usercfg, repo, MY_COMMITS, cmdargs, tracked, listing,
                   applied, budget, origin, interrupted, start, written, located, calls,
                   result>>

(***************************************************************************)
(* What follows the return of send_messages: sys.exit(0) in                *)
(* auto_thankanator (line 266); in main, after send_selected,              *)
(* check_stale_thanks (line 423).                                          *)
(***************************************************************************)
FinishSend ==
    /\ pc = "sent"
    /\ IF cmdargs.cmd = "auto" THEN End("exit0")
       ELSE IF check_stale_thanks(outdir) THEN End("exit1")
       ELSE End("return")
    /\ UNCHANGED <<datadir, outdir, usercfg, repo, MY_COMMITS, cmdargs, tracked,
                   listing, applied, pos, budget, origin, interrupted,
                   start, written, located, calls,
                   result>>

(***************************************************************************)
(* main -d: discard_selected up to its loop, then one rename per step.     *)
(***************************************************************************)
DiscardLists == SelLists \cup {<<"_all">>, <<"x", "_all">>}

DiscardSelected ==
    \E sel \in DiscardLists :
        /\ Begin([cmd |-> "discard", sel |-> sel, branch |-> ""])
        /\ UNCHANGED <<datadir, outdir>>
        /\ applied' = <<>> /\ pos' = 1
        /\ IF "email" \notin DOMAIN usercfg
           THEN End("exit1") /\ tracked' = <<>> /\ listing' = <<>>
           ELSE /\ tracked' = list_tracked(datadir, usercfg)
                /\ IF Len(tracked') = 0
                   THEN End("exit0") /\ listing' = <<>>
                   ELSE IF "_all" \in Range(sel)
                   THEN listing' = tracked' /\ Running("discard")
                   ELSE IF Raises(tracked', sel)
                   THEN End("exit1") /\ listing' = <<>>
                   ELSE listing' = Picked(tracked', sel) /\ Running("discard")

DiscardedName(fullpath) == Append(fullpath, "discarded")

DiscardRename ==
    /\ pc = "discard"
    /\ LET fullpath == listing[pos].trackfile
       IN IF fullpath \in DOMAIN datadir
          THEN /\ datadir' = os_rename(datadir, fullpath, DiscardedName(fullpath))
               /\ IF pos < Len(listing)
                  THEN pos' = pos + 1 /\ Running("discard")
                  ELSE pos' = pos /\ End("exit0")
          ELSE \* FileNotFoundError
               /\ End("exception")
               /\ UNCHANGED <<datadir, pos>>
    /\ UNCHANGED <<outdir, usercfg, repo, MY_COMMITS, cmdargs, tracked, listing,
                   applied, budget, origin, interrupted, start, written, located, calls,
                   result>>

(***************************************************************************)
(* main -a: auto_thankanator up to its loop (lines 216-244), then one      *)
(* tracked record per step (245-258); the step of the last record goes on  *)
(* to lines 260-265.                                                       *)
(***************************************************************************)
BranchArgs == {"", "main", "dev", "nosuch"}

wantbranch == IF cmdargs.branch = "" THEN repo.head ELSE cmdargs.branch

\* cmdargs.since: the window of a run, left at its default
cmdargs_since == "1.week"

AutoThankanator ==
    \E branch \in BranchArgs :
        /\ Begin([cmd |-> "auto", sel |-> <<>>, branch |-> branch])
        /\ UNCHANGED <<datadir, outdir>>
        /\ listing' = <<>> /\ applied' = <<>> /\ pos' = 1
        /\ IF "email" \notin DOMAIN usercfg
           THEN End("exit1") /\ tracked' = <<>>
           ELSE IF branch # "" /\ branch \notin DOMAIN repo.tip
           THEN End("exit1") /\ tracked' = <<>>
           ELSE /\ tracked' = list_tracked(datadir, usercfg)
                /\ IF Len(tracked') = 0 THEN End("exit0") ELSE Running("locate")

AutoLocate ==
    /\ pc = "locate"
    /\ LET jsondata == tracked[pos]
           ispr == "pr_commit_id" \in DOMAIN jsondata
           merge_commit_id == auto_locate_pr(repo, jsondata, wantbranch, usercfg)
           commits == get_all_commits(repo, wantbranch, cmdargs_since, NoCommitter,
                                      usercfg, MY_COMMITS)
           thiscall == [branch |-> wantbranch, since |-> cmdargs_since,
                        committer |-> NoCommitter, queried |-> ~MY_COMMITS.set,
                        raised |-> commits.raised, map |-> commits.map]
           patches == auto_locate_series(commits.map, jsondata)
           hit == IF ispr THEN merge_commit_id # NoCommit ELSE patches.ok
           nowapplied ==
               IF ~hit THEN applied
               ELSE IF ispr
               THEN Append(applied, [merge_commit_id |-> merge_commit_id] @@ jsondata)
               ELSE Append(applied, jsondata)
       IN /\ located' = located \cup {jsondata.trackfile}
          /\ calls' = IF ispr THEN calls ELSE Append(calls, thiscall)
          /\ IF ~ispr /\ commits.raised
             THEN \* IndexError in get_all_commits
                  /\ End("exception")
                  /\ MY_COMMITS' = [set |-> TRUE, map |-> commits.map]
                  /\ result' = NoResult
                  /\ UNCHANGED <<applied, listing, pos, outdir>>
             ELSE /\ MY_COMMITS' =
                        IF ispr THEN MY_COMMITS ELSE [set |-> TRUE, map |-> commits.map]
                  /\ result' =
                        IF ispr
                        THEN [kind |-> "pr", for |-> jsondata.trackfile,
                              merge |-> merge_commit_id, series |-> NoSeries]
                        ELSE [kind |-> "am", for |-> jsondata.trackfile,
                              merge |-> NoCommit, series |-> patches]
                  /\ applied' = nowapplied
                  /\ IF pos < Len(tracked)
                     THEN /\ pos' = pos + 1 /\ Running("locate")
                          /\ UNCHANGED <<listing, outdir>>
                     ELSE IF Len(nowapplied) = 0
                     THEN /\ End("exit0")
                          /\ UNCHANGED <<listing, pos, outdir>>
                     ELSE /\ listing' = nowapplied
                          /\ pos' = 1
                          /\ outdir' = mkdir(outdir)
                          /\ Running("write")
    /\ UNCHANGED <<datadir, usercfg, repo, cmdargs, tracked, budget, origin, interrupted,
                   start,
                   written>>

(***************************************************************************)
(* The runs of the command, one after the other.                           *)
(***************************************************************************)
Next ==
    \/ ListCmd
    \/ SendSelected
    \/ DiscardSelected
    \/ AutoThankanator
    \/ AutoLocate
    \/ WriteThanks
    \/ RenameSent
    \/ FinishSend
    \/ DiscardRename

Spec == Init /\ [][Next]_vars

(***************************************************************************)
(* One run of the auto command over a range of repositories and tracked    *)
(* records: a series with any patch list up to MaxPatches against any      *)
(* index the commits of a linear history can give (the root commit has no  *)
(* diff), and a pull request against any history of three commits.         *)
(***************************************************************************)
MaxPatches == 2

PatchLists ==
    {[i \in 1..Len(ids) |-> <<"[patch]", ids[i]>>] : ids \in SeqsUpTo(PatchIds, MaxPatches)}

SeriesStore(patches) ==
    [name \in {<<"m1", "am">>, <<"m3", "am">>} |->
        IF name = <<"m1", "am">>
        THEN [body |-> [Bodies[1] EXCEPT !.patches = patches], mtime |-> Mtimes[1]]
        ELSE [body |-> Bodies[3], mtime |-> Mtimes[3]]]

\* c1 <- c2 <- c3, both branches at c3
LinearRepo(committer, patchid) ==
    [parents |-> [c \in Commits |->
                    CASE c = "c1" -> {} [] c = "c2" -> {"c1"} [] OTHER -> {"c2"}],
     author |-> [c \in Commits |-> "bob@example.com"],
     committer |-> committer,
     patchid |-> [c \in Commits |-> IF c = "c1" THEN "p1" ELSE patchid[c]],
     recent |-> Commits,
     unreadable |-> {},
     tip |-> [b \in Branches |-> "c3"],
     head |-> "main"]

InitSeries ==
    /\ \E patches \in PatchLists : datadir = SeriesStore(patches)
    /\ \E committer \in [Commits -> Emails], patchid \in [{"c2", "c3"} -> PatchIds],
          recent \in {Commits, {"c2", "c3"}} :
          repo = [LinearRepo(committer, patchid) EXCEPT !.recent = recent]
    /\ usercfg = [name |-> "Alice", email |-> Me]

\* the histories of three commits: a parent is older than its child
Histories ==
    {p \in [Commits -> SUBSET Commits] : \A c \in Commits : \A q \in p[c] : Time(q) < Time(c)}

PrStore(commit_id) ==
    [name \in {<<commit_id, "pr">>} |-> [body |-> Bodies[2], mtime |-> Mtimes[2]]]

InitPr ==
    /\ \E commit_id \in Commits \cup {"c0"} : datadir = PrStore(commit_id)
    /\ \E parents \in Histories, author \in [Commits -> Emails],
          tip \in [Branches -> Commits], head \in Branches,
          unreadable \in {{}, {"c3"}} :
          repo = [parents |-> parents, author |-> author,
                  committer |-> [c \in Commits |-> "bob@example.com"],
                  patchid |-> [c \in Commits |-> "p1"],
                  recent |-> Commits, unreadable |-> unreadable,
                  tip |-> tip, head |-> head]
    /\ \E email \in Emails : usercfg = [name |-> "Alice", email |-> email]

InitAuto ==
    /\ InitSeries \/ InitPr
    /\ outdir = NoDir
    /\ budget = 1
    /\ InitLocals

NextAuto ==
    \/ AutoThankanator
    \/ AutoLocate
    \/ WriteThanks
    \/ RenameSent
    \/ FinishSend

SpecAuto == InitAuto /\ [][NextAuto]_vars

(***************************************************************************)
(* Properties.                                                             *)
(***************************************************************************)
HasEmail == "email" \in DOMAIN usercfg

Done == pc = "idle" /\ cmdargs.cmd # "none"

\* the listing the running (or last) command numbered its records by
Shown == list_tracked(start.datadir, usercfg)

\* v is the number of a displayed record
InRange(v, n) == IsInt(v) /\ int(v) >= 1 /\ int(v) <= n

\* v is given as a selection and is not the number of a displayed record
BadValue(v, n) == v # "_all" /\ ~InRange(v, n)

StartedStale == check_stale_thanks(start.outdir)

\* C1: a run of auto or send that starts with a .thanks file in the output
\* directory writes no artifact, renames no track file and ends with the
\* fatal exit status.
C1_StaleRefused ==
    (cmdargs.cmd \in {"auto", "send"} /\ StartedStale) =>
        /\ written = <<>>
        /\ datadir = start.datadir
        /\ pc = "idle"
        /\ status = "exit1"

\* C2: a send run that started with a clean output directory, whose selected
\* numbers were all valid, that wrote every artifact and renamed every
\* selected record to .sent, ends with a success status.
C2_CleanSendSucceeds ==
    ( /\ Done
      /\ cmdargs.cmd = "send"
      /\ HasEmail
      /\ ~StartedStale
      /\ \A i \in 1..Len(cmdargs.sel) : InRange(cmdargs.sel[i], Len(Shown))
      /\ Len(written) = Len(cmdargs.sel)
      /\ \A i \in 1..Len(cmdargs.sel) :
            Append(Shown[int(cmdargs.sel[i])].trackfile, "sent") \in DOMAIN datadir
      /\ status # "exception" )
    => status \in {"exit0", "return"}

\* C3: in send and in discard, when one of the selected values is
\* non-numeric or out of the range 1..N, no record is transitioned and no
\* artifact is written: the store stays as it was when the run started.
C3_ValidateAllFirst ==
    ( /\ cmdargs.cmd \in {"send", "discard"}
      /\ HasEmail
      /\ \E i \in 1..Len(cmdargs.sel) : BadValue(cmdargs.sel[i], Len(Shown)) )
    => datadir = start.datadir /\ written = <<>>

\* C4: with N records displayed, a selected value that is not an integer of
\* 1..N makes the run end with the failure status without a transition, and
\* a selected value resolves to the record displayed under that number.
C4_InvalidSelectionReported ==
    ( /\ cmdargs.cmd \in {"send", "discard"}
      /\ HasEmail
      /\ Len(Shown) > 0
      /\ "_all" \notin Range(cmdargs.sel) )
    => /\ (\E i \in 1..Len(cmdargs.sel) : BadValue(cmdargs.sel[i], Len(Shown)))
            => pc = "idle" /\ status = "exit1" /\ datadir = start.datadir
       /\ \A i \in 1..Len(listing) :
            /\ InRange(cmdargs.sel[i], Len(Shown))
            /\ listing[i] = Shown[int(cmdargs.sel[i])]

\* C7: when a record appears a second time in the listing of a send or
\* discard run, the second attempt fails and changes nothing on disk: the
\* terminal record stays as the first attempt left it and the artifact is
\* not written again.
C7_SecondAttemptInert ==
    \A k \in 1..Len(listing) :
        ( /\ cmdargs.cmd \in {"send", "discard"}
          /\ \E j \in 1..(k - 1) : listing[j].trackfile = listing[k].trackfile )
        => LET trackfile == listing[k].trackfile
               outfile == ThanksFile(listing[k])
           IN /\ outfile \in DOMAIN outdir.files => outdir.files[outfile].n # k
              /\ trackfile \notin DOMAIN datadir =>
                    \E mark \in {"sent", "discarded"} :
                        /\ Append(trackfile, mark) \in DOMAIN datadir
                        /\ datadir[Append(trackfile, mark)] = start.datadir[trackfile]
              /\ Done => status = "exception"

IsTerminal(name) == Suffix(name) \in {"sent", "discarded"}

Marked(name) == {Append(name, "sent"), Append(name, "discarded")}

\* C5: a step changes the store only by renaming an active record to its
\* .sent or .discarded name; a record with a marker is never renamed or
\* changed again, is never in the result of list_tracked and is never
\* handed to a locator.
C5_TerminalAbsorbing ==
    [][ /\ \A n \in DOMAIN datadir :
              IsTerminal(n) => n \in DOMAIN datadir' /\ datadir'[n] = datadir[n]
        /\ \A n \in DOMAIN datadir \ DOMAIN datadir' :
              /\ ~IsTerminal(n)
              /\ \E m \in Marked(n) :
                    /\ m \in DOMAIN datadir' \ DOMAIN datadir
                    /\ datadir'[m] = datadir[n]
        /\ \A m \in DOMAIN datadir' \ DOMAIN datadir :
              \E n \in DOMAIN datadir \ DOMAIN datadir' : m \in Marked(n)
        /\ \A n \in DOMAIN datadir \cap DOMAIN datadir' : datadir'[n] = datadir[n]
        /\ \A i \in 1..Len(tracked') : ~IsTerminal(tracked'[i].trackfile)
        /\ \A n \in located' \ located : n \in DOMAIN datadir /\ ~IsTerminal(n)
      ]_vars

\* a later run lists and transitions records while the store holds a
\* terminal record
C5_Witness ==
    /\ \E n \in DOMAIN start.datadir : IsTerminal(n)
    /\ Len(tracked) > 0
    /\ datadir # start.datadir

\* C6: every record the store ever held is still there exactly once, with
\* its content, under its original name (Active), its .sent name or its
\* .discarded name; and list_tracked returns exactly the Active ones.
C6_StoreConserved ==
    /\ \A o \in DOMAIN origin :
          LET recs == {n \in DOMAIN datadir :
                          datadir[n].body.msgid = origin[o].body.msgid}
          IN /\ Cardinality(recs) = 1
             /\ \A n \in recs : n \in {o} \cup Marked(o) /\ datadir[n] = origin[o]
    /\ Cardinality(DOMAIN datadir) = Cardinality(DOMAIN origin)
    /\ HasEmail =>
          LET active == list_tracked(datadir, usercfg)
          IN {active[i].trackfile : i \in 1..Len(active)}
                = DOMAIN datadir \cap DOMAIN origin

\* one record was sent and another discarded
C6_Witness ==
    \E n1, n2 \in DOMAIN datadir : Suffix(n1) = "sent" /\ Suffix(n2) = "discarded"

ItemOf(trackfile) == CHOOSE j \in Range(tracked) : j.trackfile = trackfile

IsSeries(jsondata) == "pr_commit_id" \notin DOMAIN jsondata

Absent(jsondata) ==
    {i \in 1..Len(jsondata.patches) : jsondata.patches[i][2] \notin DOMAIN MY_COMMITS.map}

\* C8: a series with a patch identity that is not in the commit index gets
\* None from auto_locate_series, never a shorter list; it is not put on the
\* applied list and its record is not renamed in that run.
C8_AllOrNothing ==
    /\ \A k \in 1..Len(tracked) :
          ( /\ cmdargs.cmd = "auto"
            /\ IsSeries(tracked[k])
            /\ MY_COMMITS.set
            /\ Absent(tracked[k]) # {} )
          => LET trackfile == tracked[k].trackfile
             IN /\ result.for = trackfile => result.series = NoSeries
                /\ \A i \in 1..Len(applied) : applied[i].trackfile # trackfile
                /\ \A i \in 1..Len(listing) : listing[i].trackfile # trackfile
                /\ trackfile \in DOMAIN datadir
    /\ (result.kind = "am" /\ result.series.ok)
          => Len(result.series.val) = Len(ItemOf(result.for).patches)

\* a run ended that passed over a series found in part and sent another
C8_Witness ==
    /\ Done
    /\ cmdargs.cmd = "auto"
    /\ Len(written) > 0
    /\ \E k \in 1..Len(tracked) :
          /\ IsSeries(tracked[k])
          /\ Absent(tracked[k]) # {}
          /\ Absent(tracked[k]) # 1..Len(tracked[k].patches)

\* C9: a series whose patch identities are all in the commit index gets a
\* list as long as its patch list, whose i-th element is the index entry of
\* its i-th patch identity.
C9_SeriesInOrder ==
    (result.kind = "am" /\ Absent(ItemOf(result.for)) = {})
    => LET patches == ItemOf(result.for).patches
       IN /\ result.series.ok
          /\ Len(result.series.val) = Len(patches)
          /\ \A i \in 1..Len(patches) :
                result.series.val[i] = MY_COMMITS.map[patches[i][2]]

\* a series of two patches was found whose first patch is the younger commit
C9_Witness ==
    /\ result.kind = "am"
    /\ result.series.ok
    /\ Len(result.series.val) = 2
    /\ Time(result.series.val[1][1]) > Time(result.series.val[2][1])

\* the merge commit of a request that is on the wanted branch and whose
\* author `git show` prints
MergeOf(jsondata) == git_get_merge_id(repo, jsondata.pr_commit_id)

MergeLocated(jsondata) ==
    /\ git_commit_exists(repo, jsondata.pr_commit_id)
    /\ wantbranch \in git_branch_contains(repo, jsondata.pr_commit_id)
    /\ MergeOf(jsondata) # NoCommit
    /\ MergeOf(jsondata) \notin repo.unreadable

\* C10: auto_locate_pr returns a merge commit only if the user's e-mail is
\* the author e-mail of that commit; when the author of the located merge
\* commit is someone else the result is None, and it is the merge commit
\* once the user's e-mail alone is changed to the author's.
C10_AuthorGuard ==
    result.kind = "pr" =>
        LET jsondata == ItemOf(result.for)
            asauthor == [usercfg EXCEPT !.email = repo.author[MergeOf(jsondata)]]
        IN /\ result.merge # NoCommit => repo.author[result.merge] = usercfg.email
           /\ (MergeLocated(jsondata) /\ repo.author[MergeOf(jsondata)] # usercfg.email)
                 => /\ result.merge = NoCommit
                    /\ auto_locate_pr(repo, jsondata, wantbranch, asauthor)
                          = MergeOf(jsondata)

\* a request merged by someone else was passed over
C10_Witness ==
    /\ result.kind = "pr"
    /\ MergeLocated(ItemOf(result.for))
    /\ repo.author[MergeOf(ItemOf(result.for))] # usercfg.email
    /\ result.merge = NoCommit

\* the commits on the ancestry path from commit_id to the tip of branch
AncestryPath(r, commit_id, branch) ==
    {c \in Ancestors(r, r.tip[branch]) :
        c # commit_id /\ commit_id \in Ancestors(r, c)}

\* C11: for a pull request whose commit exists and is on the wanted branch,
\* the merge commit auto_locate_pr returns lies on the ancestry path from
\* the request's commit to the tip of the wanted branch, whichever branch is
\* checked out, and is the commit of that path closest to the tip.
C11_MergeOnWantedBranch ==
    (result.kind = "pr" /\ result.merge # NoCommit) =>
        LET path == AncestryPath(repo, ItemOf(result.for).pr_commit_id, wantbranch)
        IN /\ result.merge \in path
           /\ \A c \in path : Time(c) <= Time(result.merge)

\* the commits `git log` of a call lists: the committer's commits on the
\* branch within the window
UserCommits(r, call) ==
    LET who == IF call.committer = NoCommitter THEN usercfg.email ELSE call.committer
    IN {c \in Ancestors(r, r.tip[call.branch]) :
           r.committer[c] = who /\ c \in InWindow(r, call.since)}

HasDiff(r, c) == Len(patch_id_chunks(r, c)) > 0

\* the listed commits whose diff has the patch-id p
SamePatch(r, call, p) ==
    {c \in UserCommits(r, call) : HasDiff(r, c) /\ patch_id_chunks(r, c)[1] = p}

Collides(r, call, p) == Cardinality(SamePatch(r, call, p)) >= 2

\* C12 as stated: when two or more of the user's commits in the window have
\* the same patch-id, the index maps the patch-id to the most recent of them.
C12_MostRecentWins ==
    \A i \in 1..Len(calls) : \A p \in DOMAIN calls[i].map :
        Collides(repo, calls[i], p) =>
            \A c \in SamePatch(repo, calls[i], p) : Time(c) <= Time(calls[i].map[p][1])

\* C12, amended: when two or more of the user's commits in the window have
\* the same patch-id, the index maps the patch-id to the oldest of them: the
\* log lists the most recent commit first and each later line replaces the
\* entry of the lines before it.
C12_OldestWins ==
    \A i \in 1..Len(calls) : \A p \in DOMAIN calls[i].map :
        Collides(repo, calls[i], p) =>
            /\ calls[i].map[p][1] \in SamePatch(repo, calls[i], p)
            /\ \A c \in SamePatch(repo, calls[i], p) : Time(calls[i].map[p][1]) <= Time(c)

\* an index was built from two commits of the user with the same patch-id
C12_Witness ==
    /\ Len(calls) > 0
    /\ ~calls[1].raised
    /\ \E p \in DOMAIN calls[1].map : Collides(repo, calls[1], p)

(***************************************************************************)
(* get_all_commits called several times in one process, with the           *)
(* parameters its signature takes, over linear histories c1 <- c2 <- c3    *)
(* with main at c3 and dev at c2.                                          *)
(***************************************************************************)
MaxCalls == 2

InitIndex ==
    /\ datadir = StoreOf(0)
    /\ outdir = NoDir
    /\ usercfg = [name |-> "Alice", email |-> Me]
    /\ \E committer \in [Commits -> Emails], patchid \in [{"c2", "c3"} -> PatchIds],
          recent \in {Commits, {"c3"}} :
          repo = [LinearRepo(committer, patchid) EXCEPT
                     !.recent = recent, !.tip = [main |-> "c3", dev |-> "c2"]]
    /\ budget = 0
    /\ InitLocals

\* one call; an IndexError is not caught, so no call follows it
GetAllCommits ==
    /\ Len(calls) < MaxCalls
    /\ \A i \in 1..Len(calls) : ~calls[i].raised
    /\ \E branch \in Branches, since \in Windows, committer \in {NoCommitter} \cup Emails :
          LET commits == get_all_commits(repo, branch, since, committer, usercfg,
                                         MY_COMMITS)
          IN /\ MY_COMMITS' = [set |-> TRUE, map |-> commits.map]
             /\ calls' = Append(calls,
                    [branch |-> branch, since |-> since, committer |-> committer,
                     queried |-> ~MY_COMMITS.set, raised |-> commits.raised,
                     map |-> commits.map])
    /\ UNCHANGED <<datadir, outdir, usercfg, repo, pc, cmdargs, tracked, listing,
                   applied, pos, status, budget, origin, interrupted,
                   start, written, located,
                   result>>

NextIndex == GetAllCommits

SpecIndex == InitIndex /\ [][NextIndex]_vars

SameParameters(a, b) ==
    a.branch = b.branch /\ a.since = b.since /\ a.committer = b.committer

\* the mapping a scan for the parameters of a call gives
ScanFor(call) ==
    get_all_commits(repo, call.branch, call.since, call.committer, usercfg,
                    NoCommits).map

\* C13: in one process the log is scanned at most once, by the first call of
\* get_all_commits, which keeps the mapping also when it is empty; a later
\* call with the same (branch, committer, window) returns the same mapping
\* without a query, and a call with other parameters does not get the mapping
\* computed for the parameters of an earlier call but the one for its own.
C13_MemoKeyedByParameters ==
    /\ Cardinality({i \in 1..Len(calls) : calls[i].queried}) <= 1
    /\ Len(calls) > 0 => calls[1].queried
    /\ \A i, j \in 1..Len(calls) :
          i < j =>
             IF SameParameters(calls[i], calls[j])
             THEN calls[j].map = calls[i].map /\ ~calls[j].queried
             ELSE calls[j].map = ScanFor(calls[j])

\* the listed commits that have no diff
NoDiff(r, call) == {c \in UserCommits(r, call) : ~HasDiff(r, c)}

\* C14: a listed commit whose diff cannot be produced gives no entry of the
\* index; the index is built from the other listed commits and the run goes
\* on without aborting.
C14_NoDiffIsSkipped ==
    \A i \in 1..Len(calls) :
        (calls[i].queried /\ NoDiff(repo, calls[i]) # {}) =>
            /\ ~calls[i].raised
            /\ status # "exception"
            /\ DOMAIN calls[i].map =
                  {patch_id_chunks(repo, c)[1] :
                      c \in UserCommits(repo, calls[i]) \ NoDiff(repo, calls[i])}
            /\ \A p \in DOMAIN calls[i].map :
                  calls[i].map[p][1] \notin NoDiff(repo, calls[i])

\* `git show` of the merge commit of a request failed: the request's commit
\* is on the wanted branch and has a merge commit, and the query printed
\* nothing
ShowFailed(jsondata) ==
    /\ git_commit_exists(repo, jsondata.pr_commit_id)
    /\ wantbranch \in git_branch_contains(repo, jsondata.pr_commit_id)
    /\ MergeOf(jsondata) # NoCommit
    /\ Len(git_show_ae(repo, MergeOf(jsondata))) = 0

\* C15: when a query of the repository fails while an item is matched, the
\* auto run ends there with a failure status, it does not go on as after an
\* item that did not match, and the item is not transitioned.
C15_FailedQueryAborts ==
    (result.kind = "pr" /\ ShowFailed(ItemOf(result.for))) =>
        /\ pc = "idle"
        /\ status \in {"exit1", "exception"}
        /\ result.for \in DOMAIN datadir

(***************************************************************************)
(* A run that is interrupted (a signal, a power cut) between two steps of  *)
(* its loop, or in the middle of writing an artifact: the file is then     *)
(* there without a complete message.  What is on disk stays, the process   *)
(* is gone.  One run of a behaviour is interrupted, the runs after it are  *)
(* not.                                                                    *)
(***************************************************************************)
Truncated(run, n) == [msgid |-> "", run |-> run, n |-> n]

Interrupt ==
    /\ pc \in {"locate", "write", "rename", "sent", "discard"}
    /\ interrupted = NoInterrupt
    /\ interrupted' = [cmdargs |-> cmdargs, listing |-> listing, run |-> budget]
    /\ End("killed")
    /\ \/ UNCHANGED outdir
       \/ /\ pc = "write"
          /\ LET outfile == ThanksFile(listing[pos])
             IN outdir' = [outdir EXCEPT !.files =
                             [n \in DOMAIN outdir.files \cup {outfile} |->
                                 IF n = outfile THEN Truncated(budget, pos)
                                 ELSE outdir.files[n]]]
    /\ UNCHANGED <<datadir, usercfg, repo, MY_COMMITS, cmdargs, tracked, listing,
                   applied, pos, budget, origin, start, written, located, calls,
                   result>>

\* two records, and two runs: the one that is interrupted and the one after
InitCrash ==
    /\ datadir = StoreOf(2)
    /\ outdir = NoDir
    /\ usercfg = [name |-> "Alice", email |-> Me]
    /\ repo = MainRepo
    /\ budget = 2
    /\ InitLocals

NextCrash == Next \/ Interrupt

SpecCrash == InitCrash /\ [][NextCrash]_vars

\* every record the behaviour started with is in the store once, Active
\* under its own name or terminal under that name with one marker
OneStateEach ==
    \A o \in DOMAIN origin :
        /\ Cardinality(({o} \cup Marked(o)) \cap DOMAIN datadir) = 1
        /\ \A n \in ({o} \cup Marked(o)) \cap DOMAIN datadir : datadir[n] = origin[o]

\* the run that was interrupted has just ended
JustInterrupted == pc = "idle" /\ status = "killed"

\* the run after the interrupted one, started with the same arguments
IsRerun ==
    /\ interrupted # NoInterrupt
    /\ budget = interrupted.run - 1
    /\ cmdargs = interrupted.cmdargs

\* the records the interrupted run was about to transition
Pending == {interrupted.listing[i].trackfile : i \in 1..Len(interrupted.listing)}

\* C16 as stated: after an interrupted send, discard or auto run every item
\* is either terminal or Active under its original name, none both or
\* neither, and the same command run again goes through and transitions the
\* items the interrupted run left Active, none lost, none twice.
C16_RerunCompletes ==
    /\ OneStateEach
    /\ JustInterrupted =>
          \A n \in DOMAIN start.datadir \ Pending : n \in DOMAIN datadir
    /\ (IsRerun /\ Done) => \A n \in Pending : n \notin DOMAIN datadir

\* C16, amended: after an interrupted send, discard or auto run every item
\* is either terminal or Active under its original name, none both or
\* neither; the runs after it list exactly the items that are still Active,
\* so none is lost or transitioned twice, and `discard all` run again
\* transitions all of them.  (The numbers of a send or discard run again
\* name the records of the new, shorter listing.)
C16_RerunListsActive ==
    /\ OneStateEach
    /\ JustInterrupted =>
          \A n \in DOMAIN start.datadir \ Pending : n \in DOMAIN datadir
    /\ (interrupted # NoInterrupt /\ budget < interrupted.run) =>
          /\ {Shown[i].trackfile : i \in 1..Len(Shown)}
                = DOMAIN start.datadir \cap DOMAIN origin
          /\ \A i \in 1..Len(tracked) : tracked[i] = Shown[i]
    /\ (IsRerun /\ Done /\ cmdargs.cmd = "discard" /\ "_all" \in Range(cmdargs.sel)) =>
          /\ status = "exit0"
          /\ DOMAIN datadir \cap DOMAIN origin = {}

\* `discard all` was interrupted after its first rename and run again to
\* the end
C16_Witness ==
    /\ IsRerun /\ Done
    /\ cmdargs.cmd = "discard" /\ "_all" \in Range(cmdargs.sel)
    /\ \E n \in DOMAIN start.datadir : IsTerminal(n)
    /\ \E n \in DOMAIN start.datadir : ~IsTerminal(n)
    /\ start.datadir # datadir

\* the records of the listing are k different tracked items
DistinctItems(items) ==
    \A i, j \in 1..Len(items) : i # j => items[i].trackfile # items[j].trackfile

\* C17: when send_messages has gone through a listing of k different items,
\* the run has written k different artifacts and the artifact of each item
\* still holds the message for that item: none was replaced by the artifact
\* of another item of the run.
C17_OneArtifactPerItem ==
    (pc = "sent" /\ DistinctItems(listing)) =>
        /\ Cardinality(Range(written)) = Len(listing)
        /\ \A k \in 1..Len(listing) :
              /\ ThanksFile(listing[k]) \in DOMAIN outdir.files
              /\ outdir.files[ThanksFile(listing[k])].msgid = listing[k].msgid

\* the records this step renamed to .sent
SentByStep == {n \in DOMAIN datadir : SentName(n) \in DOMAIN datadir' \ DOMAIN datadir}

\* C18: a record is renamed to .sent only when the artifact of its item is
\* completely written: at the rename the file of the item holds the whole
\* message for it, written in this run; and in every state, also after an
\* interruption, each item that this run has made Sent has its artifact
\* among the files the run has written.
C18_EmitBeforeTransition ==
    [][ /\ \A n \in SentByStep :
              LET outfile == ThanksFile(ItemOf(n))
              IN /\ outfile \in Range(written)
                 /\ outfile \in DOMAIN outdir.files
                 /\ outdir.files[outfile].msgid = ItemOf(n).msgid
        /\ \A n \in DOMAIN start'.datadir :
              SentName(n) \in DOMAIN datadir' \ DOMAIN start'.datadir
                 => ThanksFile(CHOOSE j \in Range(tracked') : j.trackfile = n)
                        \in Range(written')
      ]_vars

\* a run was interrupted after it had made an item Sent
C18_Witness ==
    /\ JustInterrupted
    /\ \E n \in DOMAIN start.datadir :
          SentName(n) \in DOMAIN datadir \ DOMAIN start.datadir

\* the fields list_tracked and auto_thankanator attach to a record in memory
Attached == {"myname", "myemail", "trackfile", "pr_commit_id", "merge_commit_id"}

\* C19: no step changes the stored body of a record; the fields attached to
\* the record in memory are never stored; a transition leaves the file's
\* content as it is and only appends the marker to its name.
C19_BodiesImmutable ==
    [][ /\ \A n \in DOMAIN datadir \cap DOMAIN datadir' :
              datadir'[n].body = datadir[n].body
        /\ \A n \in DOMAIN datadir \ DOMAIN datadir' :
              \E m \in Marked(n) :
                 m \in DOMAIN datadir' /\ datadir'[m].body = datadir[n].body
        /\ \A m \in DOMAIN datadir' \ DOMAIN datadir :
              /\ Stem(m) \in DOMAIN datadir \ DOMAIN datadir'
              /\ datadir'[m].body = datadir[Stem(m)].body
        /\ \A n \in DOMAIN datadir' : DOMAIN datadir'[n].body \cap Attached = {}
      ]_vars

\* a pull request was sent by an auto run that held its merge commit in
\* memory
C19_Witness ==
    /\ cmdargs.cmd = "auto"
    /\ \E i \in 1..Len(listing) :
          /\ "merge_commit_id" \in DOMAIN listing[i]
          /\ SentName(listing[i].trackfile) \in DOMAIN datadir

\* the records the running command has transitioned
Transitioned == DOMAIN start.datadir \ DOMAIN datadir

\* the displayed records the numbers of the selection name
SelectedByNumber ==
    IF cmdargs.cmd = "discard" /\ "_all" \in Range(cmdargs.sel)
    THEN {Shown[i].trackfile : i \in 1..Len(Shown)}
    ELSE {Shown[int(v)].trackfile :
             v \in {w \in Range(cmdargs.sel) : InRange(w, Len(Shown))}}

\* the displayed records a locator finds applied; no locator is called for a
\* branch that does not exist
Matched ==
    IF wantbranch \notin DOMAIN repo.tip THEN {}
    ELSE {j.trackfile : j \in
            {k \in Range(Shown) :
                IF IsSeries(k)
                THEN auto_locate_series(
                         get_all_commits(repo, wantbranch, cmdargs_since, NoCommitter,
                                         usercfg, NoCommits).map, k).ok
                ELSE auto_locate_pr(repo, k, wantbranch, usercfg) # NoCommit}}

\* C20: an auto run transitions exactly the Active items its locators
\* matched, a send or discard run exactly the items the selection names;
\* every other Active item keeps its name; discard writes no artifact and
\* list changes neither the store nor the output directory.
C20_Frame ==
    IF ~HasEmail THEN datadir = start.datadir
    ELSE
       /\ cmdargs.cmd = "list" => datadir = start.datadir /\ outdir = start.outdir
       /\ cmdargs.cmd = "discard" =>
             /\ outdir = start.outdir
             /\ Transitioned \subseteq SelectedByNumber
             /\ (Done /\ status = "exit0" /\ Len(tracked) > 0)
                   => Transitioned = SelectedByNumber
       /\ cmdargs.cmd = "send" =>
             /\ Transitioned \subseteq SelectedByNumber
             /\ pc = "sent" => Transitioned = SelectedByNumber
       /\ cmdargs.cmd = "auto" =>
             /\ Transitioned \subseteq Matched
             /\ pc = "sent" => Transitioned = Matched

====
